---- MODULE Spec2Model ----
(***************************************************************************)
(* Model of the takaichi-speech-rag repository:                            *)
(*   - the speech ingestion fetcher      (src/src/get_diet_speeches.py)    *)
(*   - the vector store builder          (src/src/update_vectorstore.py)   *)
(*   - the RAG query engine, API and UI  (src/src/rag_engine.py, app.py,   *)
(*                                        ui_gradio.py)                    *)
(*   - the scheduled pipeline            (src/dags/embedding_update_dag.py)*)
(* Each component has its own specification over the shared variables.     *)
(***************************************************************************)
EXTENDS Integers, Sequences, FiniteSets, TLC

VARIABLES
    upstream,    \* the API's result list (speech ids, in the order the API serves them)
    outFile,     \* data/diet_speeches.jsonl : [exists, lines]
    idsFile,     \* data/fetched_ids.txt     : [exists, lines]
    stateFile,   \* data/fetch_state.json    : [exists, last_fetched_date]
    fetch,       \* locals of the running auto_fetch / fetch_initial / fetch_incremental
    cur,         \* observation of the running fetch: what it started from
    hist,        \* summaries of the finished fetch runs, newest last: the last in full,
                 \* the one before it without the files
    runs,        \* number of fetch runs started
    withdrawn,   \* the API has stopped serving the speeches it had published
    dirs,        \* the index directories, by path: [exists, items]
    build,       \* locals of the running update_vectorstore.main
    promo,       \* observation of the promotion: the last complete contents of the
                 \* active directory, and whether a swap has begun and not returned
    seen,        \* what the last load_vectorstore() of a reader found
    engine,      \* rag_engine module state: _vectordb / _chain set or not
    store,       \* _history_store: session id -> history object (0: no entry)
    heap,        \* the ChatMessageHistory objects: object -> messages
    lastCall,    \* observation of the last answer_question call
    api,         \* observation of the last POST /ask: the request and its outcome
    ui,          \* the Chat UI: [history (gr.State), chatbot]
    dag,         \* the scheduler's view of the current DAG run
    docgen,      \* the running build_documents generator: the records, the position
                 \* in them, the chunks of the current record, the documents yielded
    workers      \* the server's worker threads: the request each is handling and how
                 \* far it is, and the requests that were answered

fetchVars == <<upstream, outFile, idsFile, stateFile, fetch, cur, hist, runs, withdrawn>>
buildVars == <<dirs, build, promo, seen>>
engineVars == <<engine, store, heap, lastCall, api, ui>>
dagVars == <<dag>>
docVars == <<docgen>>
workerVars == <<workers>>

vars == <<upstream, outFile, idsFile, stateFile, fetch, cur, hist, runs, withdrawn,
          dirs, build, promo, seen, engine, store, heap, lastCall, api, ui, dag,
          docgen, workers>>

(***************************************************************************)
(* Bounds of the model                                                     *)
(***************************************************************************)
MaxIds == 3          \* speech identifiers 1..MaxIds exist upstream
MaxRuns == 3         \* fetch runs started
Today == 5           \* date.today(), as a day number
MaxBuilds == 2       \* runs of the builder's main
MaxCalls == 3        \* answer_question calls, and POST /ask requests
MaxDagRuns == 4      \* scheduled DAG runs

\* MAX_RECORDS_PER_REQUEST (100 in the source), scaled down
MAX_RECORDS_PER_REQUEST == 1

(***************************************************************************)
(* Fetcher: constants and helpers                                          *)
(***************************************************************************)
\* Python's None for a date; real dates are day numbers >= 1
None == 0

\* INIT_FROM_DATE = date(2023, 1, 1), as day number 1
INIT_FROM_DATE == 1

\* timedelta(days=3) in auto_fetch
LOOKBACK_DAYS == 3

Ids == 1..MaxIds

\* the date the API reports for a speech: speech 3 is an old speech published late,
\* the others share a day
DateOf(id) == IF id = 3 THEN 1 ELSE 4

\* a speechRecord as served by the API
Rec(id) == [speechID |-> id, date |-> DateOf(id)]

Min(a, b) == IF a < b THEN a ELSE b

\* math.ceil(total / MAX_RECORDS_PER_REQUEST)
Ceil(total, per) == (total + per - 1) \div per

\* the orders in which a Python set can be written out
SetOrders(S) ==
    {s \in [1..Cardinality(S) -> S] : \A a, b \in 1..Cardinality(S) : a # b => s[a] # s[b]}

AbsentFile == [exists |-> FALSE, lines |-> <<>>]
AbsentState == [exists |-> FALSE, last_fetched_date |-> None]

\* load_state(): the state file's content, or {"last_fetched_date": None}
load_state == IF stateFile.exists THEN stateFile.last_fetched_date ELSE None

\* load_fetched_ids() as it would be if the ID file were never read
MutLoadFetchedIds == {}

\* load_fetched_ids(): the set of the ID file's lines, or set()
load_fetched_ids ==
    IF idsFile.exists THEN {idsFile.lines[k] : k \in 1..Len(idsFile.lines)} ELSE {}

\* the API's answer to a query over [from, until]: the matching records, in order
InRange(id, from, until) == from <= DateOf(id) /\ DateOf(id) <= until
Query(from, until) == SelectSeq(upstream, LAMBDA id : InRange(id, from, until))

\* get_record_count: numberOfRecords of the query
get_record_count(from, until) == Len(Query(from, until))

\* one page request: maximumRecords records from startRecord on
PageOf(from, until, start_record) ==
    LET q == Query(from, until)
    IN  IF start_record > Len(q) THEN <<>>
        ELSE SubSeq(q, start_record, Min(Len(q), start_record + MAX_RECORDS_PER_REQUEST - 1))

IdleFetch ==
    [pc |-> "idle", mode |-> "none", from_date |-> 0, until |-> 0, total |-> 0,
     i |-> 0, existing_ids |-> {}, ids |-> {}, latest_date |-> None]

Files == [out |-> outFile, ids |-> idsFile, state |-> stateFile]

NoObs == [upstream |-> <<>>, changed |-> FALSE, before |-> [out |-> AbsentFile, ids |-> AbsentFile, state |-> AbsentState], wrote |-> <<>>]

\* the record of a finished run, kept for the properties
Summary(f, outcome, c, after) ==
    [mode |-> f.mode, from_date |-> f.from_date, until |-> f.until, outcome |-> outcome,
     total |-> f.total, requests |-> f.i, new_count |-> Len(c.wrote),
     upstream |-> c.upstream, changed |-> c.changed, before |-> c.before,
     wrote |-> c.wrote, after |-> after]

\* a summary without the file contents
Slim(s) == [s EXCEPT !.before = NoObs.before, !.after = NoObs.before, !.wrote = <<>>]

Remember(s) == IF hist = <<>> THEN <<s>> ELSE <<Slim(hist[Len(hist)]), s>>

\* mutation of InitialLoop: the identifiers of the records written are not collected
RECURSIVE MutInitialLoop(_, _)
MutInitialLoop(recs, st) ==
    IF recs = <<>> THEN st
    ELSE LET rec == Rec(Head(recs))
             rec_date == rec.date
         IN  MutInitialLoop(Tail(recs),
                [lines |-> Append(st.lines, rec),
                 existing_ids |-> st.existing_ids,
                 ids |-> st.ids,
                 latest_date |-> IF st.latest_date = None \/ rec_date > st.latest_date
                                 THEN rec_date ELSE st.latest_date,
                 wrote |-> Append(st.wrote, rec)])

\* the loop body of fetch_initial over one page: every record is written
RECURSIVE InitialLoop(_, _)
InitialLoop(recs, st) ==
    IF recs = <<>> THEN st
    ELSE LET rec == Rec(Head(recs))
             rec_date == rec.date
         IN  InitialLoop(Tail(recs),
                [lines |-> Append(st.lines, rec),
                 existing_ids |-> st.existing_ids,
                 ids |-> st.ids \cup {rec.speechID},
                 latest_date |-> IF st.latest_date = None \/ rec_date > st.latest_date
                                 THEN rec_date ELSE st.latest_date,
                 wrote |-> Append(st.wrote, rec)])

\* the duplicate test of fetch_incremental as it would be without the skip
MutIsKnown(speech_id, existing_ids) == FALSE

\* the duplicate test of fetch_incremental
IsKnown(speech_id, existing_ids) == speech_id \in existing_ids

\* the loop body of fetch_incremental over one page: known ids are skipped
RECURSIVE IncrementalLoop(_, _)
IncrementalLoop(recs, st) ==
    IF recs = <<>> THEN st
    ELSE LET rec == Rec(Head(recs))
             rec_date == rec.date
         IN  IF IsKnown(rec.speechID, st.existing_ids)
             THEN IncrementalLoop(Tail(recs), st)
             ELSE IncrementalLoop(Tail(recs),
                    [lines |-> Append(st.lines, rec),
                     existing_ids |-> st.existing_ids \cup {rec.speechID},
                     ids |-> st.ids \cup {rec.speechID},
                     latest_date |-> IF st.latest_date = None \/ rec_date > st.latest_date
                                     THEN rec_date ELSE st.latest_date,
                     wrote |-> Append(st.wrote, rec)])

(***************************************************************************)
(* Fetcher: actions                                                        *)
(***************************************************************************)
FetchStart ==
    /\ upstream = <<>>
    /\ outFile = AbsentFile
    /\ idsFile = AbsentFile
    /\ stateFile = AbsentState
    /\ fetch = IdleFetch
    /\ cur = NoObs
    /\ hist = <<>>
    /\ runs = 0
    /\ withdrawn = FALSE

\* the API publishes the next speech (identifiers are given out in order): it enters
\* the result list at the front or at the back
Publish ==
    /\ ~withdrawn
    /\ \E id \in Ids, front \in BOOLEAN :
         /\ id = Len(upstream) + 1
         /\ upstream' = IF front THEN <<id>> \o upstream ELSE Append(upstream, id)
    /\ cur' = IF fetch.pc = "paging" THEN [cur EXCEPT !.changed = TRUE] ELSE cur
    /\ UNCHANGED <<outFile, idsFile, stateFile, fetch, hist, runs, withdrawn>>
    /\ UNCHANGED <<buildVars, engineVars, dagVars, docVars, workerVars>>

\* between two runs the API stops serving the speeches it has published, and
\* publishes no more
Withdraw ==
    /\ fetch.pc = "idle"
    /\ upstream # <<>>
    /\ ~withdrawn
    /\ upstream' = <<>>
    /\ withdrawn' = TRUE
    /\ UNCHANGED <<outFile, idsFile, stateFile, fetch, cur, hist, runs>>
    /\ UNCHANGED <<buildVars, engineVars, dagVars, docVars, workerVars>>

\* mutation of ModeOf: an empty record file counts as an existing one
MutModeOf == IF ~outFile.exists THEN "initial" ELSE "incremental"

\* the mode and date range auto_fetch chooses
ModeOf == IF ~outFile.exists \/ Len(outFile.lines) = 0 THEN "initial" ELSE "incremental"

FromDateOf ==
    IF ModeOf = "initial" THEN INIT_FROM_DATE
    ELSE IF load_state # None THEN load_state - LOOKBACK_DAYS ELSE INIT_FROM_DATE

Started ==
    [IdleFetch EXCEPT !.mode = ModeOf, !.from_date = FromDateOf, !.until = Today,
                      !.existing_ids = IF ModeOf = "incremental" THEN load_fetched_ids ELSE {}]

Observed == [upstream |-> upstream, changed |-> FALSE, before |-> Files, wrote |-> <<>>]

\* auto_fetch up to the count query, when the count request fails: the error propagates
AutoFetchCountError ==
    /\ fetch.pc = "idle"
    /\ runs < MaxRuns
    /\ runs' = runs + 1
    /\ cur' = NoObs
    /\ hist' = Remember(Summary(Started, "error", Observed, Files))
    /\ UNCHANGED <<upstream, outFile, idsFile, stateFile, fetch, withdrawn>>
    /\ UNCHANGED <<buildVars, engineVars, dagVars, docVars, workerVars>>

\* mutation of AutoFetchNoData: the record file is opened for writing before the
\* count is looked at
MutAutoFetchNoData ==
    /\ fetch.pc = "idle"
    /\ runs < MaxRuns
    /\ runs' = runs + 1
    /\ get_record_count(FromDateOf, Today) = 0
    /\ cur' = NoObs
    /\ outFile' = [exists |-> TRUE, lines |-> outFile.lines]
    /\ hist' = Remember(Summary(Started, "nodata", Observed,
                                [out |-> outFile', ids |-> idsFile, state |-> stateFile]))
    /\ UNCHANGED <<upstream, idsFile, stateFile, fetch, withdrawn>>
    /\ UNCHANGED <<buildVars, engineVars, dagVars, docVars, workerVars>>

\* auto_fetch when the count is zero: fetch_* returns None and nothing is saved
AutoFetchNoData ==
    /\ fetch.pc = "idle"
    /\ runs < MaxRuns
    /\ runs' = runs + 1
    /\ get_record_count(FromDateOf, Today) = 0
    /\ cur' = NoObs
    /\ hist' = Remember(Summary(Started, "nodata", Observed, Files))
    /\ UNCHANGED <<upstream, outFile, idsFile, stateFile, fetch, withdrawn>>
    /\ UNCHANGED <<buildVars, engineVars, dagVars, docVars, workerVars>>

\* auto_fetch up to the opening of the record file ("w" truncates, "a" keeps)
AutoFetchStart ==
    /\ fetch.pc = "idle"
    /\ runs < MaxRuns
    /\ runs' = runs + 1
    /\ get_record_count(FromDateOf, Today) > 0
    /\ fetch' = [Started EXCEPT !.pc = "paging", !.total = get_record_count(FromDateOf, Today)]
    /\ outFile' = IF ModeOf = "initial" THEN [exists |-> TRUE, lines |-> <<>>]
                  ELSE [exists |-> TRUE, lines |-> outFile.lines]
    /\ cur' = Observed
    /\ UNCHANGED <<upstream, idsFile, stateFile, hist, withdrawn>>
    /\ UNCHANGED <<buildVars, engineVars, dagVars, docVars, workerVars>>

\* mutation of FetchPageError: the identifiers collected so far are saved on
\* the way out
MutFetchPageError ==
    /\ fetch.pc = "paging"
    /\ fetch' = IdleFetch
    /\ cur' = NoObs
    /\ \E order \in SetOrders(fetch.ids) :
         idsFile' = [exists |-> TRUE, lines |-> idsFile.lines \o order]
    /\ hist' = Remember(Summary(fetch, "error", cur,
                                [out |-> outFile, ids |-> idsFile', state |-> stateFile]))
    /\ UNCHANGED <<upstream, outFile, stateFile, runs, withdrawn>>
    /\ UNCHANGED <<buildVars, engineVars, dagVars, docVars, workerVars>>

\* a page request fails: raise_for_status() leaves the loop and the run
FetchPageError ==
    /\ fetch.pc = "paging"
    /\ fetch' = IdleFetch
    /\ cur' = NoObs
    /\ hist' = Remember(Summary(fetch, "error", cur, Files))
    /\ UNCHANGED <<upstream, outFile, idsFile, stateFile, runs, withdrawn>>
    /\ UNCHANGED <<buildVars, engineVars, dagVars, docVars, workerVars>>

\* mutation of SavedState: the date is saved only when it is later than the saved one
MutSavedState(latest) ==
    IF latest # None /\ (~stateFile.exists \/ latest > stateFile.last_fetched_date)
    THEN [exists |-> TRUE, last_fetched_date |-> latest] ELSE stateFile

\* save_state(latest) when latest is set
SavedState(latest) ==
    IF latest # None THEN [exists |-> TRUE, last_fetched_date |-> latest] ELSE stateFile

\* one iteration of the page loop; the last one also saves the ids and the state
FetchPage ==
    /\ fetch.pc = "paging"
    /\ LET start_record == 1 + fetch.i * MAX_RECORDS_PER_REQUEST
           pages == Ceil(fetch.total, MAX_RECORDS_PER_REQUEST)
           speech_records == PageOf(fetch.from_date, fetch.until, start_record)
           st0 == [lines |-> outFile.lines, existing_ids |-> fetch.existing_ids,
                   ids |-> fetch.ids, latest_date |-> fetch.latest_date, wrote |-> cur.wrote]
           st == IF fetch.mode = "initial" THEN InitialLoop(speech_records, st0)
                 ELSE IncrementalLoop(speech_records, st0)
           more == fetch.i + 1 < pages /\ 1 + (fetch.i + 1) * MAX_RECORDS_PER_REQUEST <= fetch.total
           out1 == [exists |-> TRUE, lines |-> st.lines]
           f1 == [fetch EXCEPT !.i = fetch.i + 1, !.existing_ids = st.existing_ids,
                               !.ids = st.ids, !.latest_date = st.latest_date]
           c1 == [cur EXCEPT !.wrote = st.wrote]
       IN  /\ outFile' = out1
           /\ IF more
              THEN /\ fetch' = f1
                   /\ cur' = c1
                   /\ UNCHANGED <<idsFile, stateFile, hist>>
              ELSE /\ fetch' = IdleFetch
                   /\ cur' = NoObs
                   /\ \E order \in SetOrders(st.ids) :
                        idsFile' = IF fetch.mode = "initial"
                                   THEN [exists |-> TRUE, lines |-> order]
                                   ELSE IF st.ids # {}
                                        THEN [exists |-> TRUE, lines |-> idsFile.lines \o order]
                                        ELSE idsFile
                   /\ stateFile' = SavedState(st.latest_date)
                   /\ hist' = Remember(Summary(f1, "done", c1,
                                [out |-> out1, ids |-> idsFile', state |-> stateFile']))
    /\ UNCHANGED <<upstream, runs, withdrawn>>
    /\ UNCHANGED <<buildVars, engineVars, dagVars, docVars, workerVars>>

FetchNext ==
    \/ Publish
    \/ Withdraw
    \/ AutoFetchCountError
    \/ AutoFetchNoData
    \/ AutoFetchStart
    \/ FetchPageError
    \/ FetchPage


(***************************************************************************)
(* Fetcher: properties                                                     *)
(***************************************************************************)
NoRepeat(seq) == \A a, b \in 1..Len(seq) : a # b => seq[a] # seq[b]

SpeechIds(lines) == [k \in 1..Len(lines) |-> lines[k].speechID]

Last == hist[Len(hist)]

Completed(s) == s.outcome \in {"done", "nodata"}

\* C1: after any sequence of fetch runs, no speech identifier is on more than one
\* line of the record file
C1_NoDuplicateRecordLines ==
    fetch.pc = "idle" => NoRepeat(SpeechIds(outFile.lines))

\* two incremental runs in a row, both run to the end, over the same date range and
\* the same, unchanging upstream result list
TwiceInARow ==
    /\ fetch.pc = "idle"
    /\ Len(hist) = 2
    /\ hist[1].mode = "incremental" /\ hist[2].mode = "incremental"
    /\ Completed(hist[1]) /\ Completed(hist[2])
    /\ hist[1].from_date = hist[2].from_date /\ hist[1].until = hist[2].until
    /\ hist[1].upstream = hist[2].upstream
    /\ ~hist[1].changed /\ ~hist[2].changed

\* C2: the second of two incremental runs in a row over the same date range with no
\* new upstream data leaves the record file, the ID file and the fetch state as the
\* first run left them
C2_SecondIncrementalRunChangesNothing ==
    TwiceInARow => /\ Files = hist[2].before
                   /\ hist[2].new_count = 0

\* C2 witness: the first run added records, the second run paged through the same
\* results and is over
C2_Witness ==
    /\ TwiceInARow
    /\ hist[1].new_count > 0
    /\ hist[2].outcome = "done" /\ hist[2].requests > 0

\* C3: the ID file never holds an identifier on two lines; an incremental run only
\* appends, and only identifiers that were not in the file when it started; a full
\* run leaves the file holding exactly the set of the identifiers it saw
C3_IdsFileHasNoDuplicate ==
    /\ NoRepeat(idsFile.lines)
    /\ (fetch.pc = "idle" /\ hist # <<>> /\ Last.outcome = "done") =>
          LET old == Last.before.ids.lines
              new == idsFile.lines
          IN  IF Last.mode = "incremental"
              THEN /\ Len(new) >= Len(old)
                   /\ SubSeq(new, 1, Len(old)) = old
                   /\ \A k \in (Len(old) + 1)..Len(new) :
                         \A j \in 1..Len(old) : new[k] # old[j]
              ELSE /\ idsFile.exists
                   /\ {new[k] : k \in 1..Len(new)} =
                          {Last.wrote[k].speechID : k \in 1..Len(Last.wrote)}

\* C3 witness: an incremental run has appended identifiers to a non-empty ID file
C3_Witness ==
    /\ fetch.pc = "idle" /\ hist # <<>>
    /\ Last.mode = "incremental" /\ Last.outcome = "done"
    /\ Len(Last.before.ids.lines) > 0
    /\ Len(idsFile.lines) > Len(Last.before.ids.lines)

(***************************************************************************)
(* Builder: constants and helpers                                          *)
(***************************************************************************)
\* ACTIVE_DB_DIR and TEMP_DB_DIR
ACTIVE_DB_DIR == "chroma_db"
TEMP_DB_DIR == "chroma_db_temp"

Paths == {ACTIVE_DB_DIR, TEMP_DB_DIR}

\* BATCH_SIZE (200 in the source), scaled down
BATCH_SIZE == 2

\* a directory: whether it is there, which directory it is (the path and the run of
\* main that made it, 0 for one that was there before), and its child entries
AbsentDir == [exists |-> FALSE, node |-> <<"", 0>>, items |-> {}]
NewDir(path, n) == [exists |-> TRUE, node |-> <<path, n>>, items |-> {}]

\* what Chroma keeps under a persist directory: the sqlite file, and the segment
\* directory (named by a fresh uuid) once documents were added; gen tells the
\* builds apart, docs is the number of documents stored
SqliteFile(gen, docs) ==
    [name |-> <<"chroma.sqlite3", 0>>, kind |-> "file", gen |-> gen, docs |-> docs]
SegmentDir(gen, docs) ==
    [name |-> <<"segment-uuid", gen>>, kind |-> "dir", gen |-> gen, docs |-> docs]

IndexItems(gen, docs) ==
    IF docs = 0 THEN {SqliteFile(gen, 0)} ELSE {SqliteFile(gen, docs), SegmentDir(gen, docs)}

\* a file somebody left in the active directory
StrayFile == [name |-> <<"notes.txt", 0>>, kind |-> "file", gen |-> 0, docs |-> 0]

\* the documents build_documents yields: one per record (records are short)
DocCount == Len(outFile.lines)

\* the directory main builds into, as it would be if it built in place
MutBuildTarget == ACTIVE_DB_DIR

\* the directory main builds into: build_vectorstore(TEMP_DB_DIR)
BuildTarget == TEMP_DB_DIR

\* the test of swap_active_db as it would be if the old contents were never cleared
MutActiveExists(active_dir) == FALSE

\* active_dir.exists() in swap_active_db
ActiveExists(active_dir) == dirs[active_dir].exists

IdleBuild == [pc |-> "idle", n |-> 0, gen |-> 0, todo |-> 0, added |-> 0, result |-> "none",
              prior |-> AbsentDir, promoted |-> {}]

NotSeen == [status |-> "none", items |-> {}, good |-> {}, promoted |-> {}, torn |-> FALSE,
            phase |-> "idle"]

(***************************************************************************)
(* Builder: actions                                                        *)
(***************************************************************************)
\* a directory as main can find it: absent, empty, holding an index, holding an
\* index and a file that is not part of it
StartShapes == {"absent", "empty", "index", "index_and_file"}

StartDir(path, shape) ==
    IF shape = "absent" THEN AbsentDir
    ELSE [NewDir(path, 0) EXCEPT !.items =
            IF shape = "empty" THEN {}
            ELSE IF shape = "index" THEN IndexItems(0, 1)
            ELSE IndexItems(0, 1) \cup {StrayFile}]

\* what the two directories and the record file can be when the builder is started
BuildStart ==
    /\ \E shape \in [Paths -> StartShapes] : dirs = [p \in Paths |-> StartDir(p, shape[p])]
    /\ dirs[TEMP_DB_DIR].items \subseteq IndexItems(0, 1)
    /\ build = IdleBuild
    /\ promo = [good |-> dirs[ACTIVE_DB_DIR].items, torn |-> FALSE]
    /\ seen = NotSeen

BuildIdle ==
    /\ dirs = [p \in Paths |-> AbsentDir]
    /\ build = IdleBuild
    /\ promo = [good |-> {}, torn |-> FALSE]
    /\ seen = NotSeen

\* mutation of MainNoData: the stale temporary directory is removed before the
\* record file is looked for
MutMainNoData ==
    /\ build.pc = "idle" /\ build.n < MaxBuilds
    /\ ~outFile.exists
    /\ dirs' = [dirs EXCEPT ![TEMP_DB_DIR] = AbsentDir]
    /\ build' = [build EXCEPT !.n = build.n + 1, !.result = "not_found"]
    /\ UNCHANGED <<promo, seen>>
    /\ UNCHANGED <<fetchVars, engineVars, dagVars, docVars, workerVars>>

\* main when the record file is absent: FileNotFoundError
MainNoData ==
    /\ build.pc = "idle" /\ build.n < MaxBuilds
    /\ ~outFile.exists
    /\ build' = [build EXCEPT !.n = build.n + 1, !.result = "not_found"]
    /\ UNCHANGED <<dirs, promo, seen>>
    /\ UNCHANGED <<fetchVars, engineVars, dagVars, docVars, workerVars>>

\* main, then build_vectorstore up to the empty collection: the stale directory is
\* removed and Chroma creates the persist directory
MainStart ==
    /\ build.pc = "idle" /\ build.n < MaxBuilds
    /\ outFile.exists
    /\ dirs' = [dirs EXCEPT ![BuildTarget] =
                  [NewDir(BuildTarget, build.n + 1) EXCEPT !.items = IndexItems(build.n + 1, 0)]]
    /\ build' = [build EXCEPT !.pc = "building", !.n = build.n + 1, !.gen = build.n + 1,
                              !.todo = DocCount, !.added = 0, !.result = "none"]
    /\ UNCHANGED <<promo, seen>>
    /\ UNCHANGED <<fetchVars, engineVars, dagVars, docVars, workerVars>>

\* main when rmtree or the creation of the collection raises: the stale directory
\* is still there, or it is gone
MainStartFail ==
    /\ build.pc = "idle" /\ build.n < MaxBuilds
    /\ outFile.exists
    /\ \E removed \in BOOLEAN :
         dirs' = IF removed THEN [dirs EXCEPT ![BuildTarget] = AbsentDir] ELSE dirs
    /\ build' = [build EXCEPT !.n = build.n + 1, !.result = "error"]
    /\ UNCHANGED <<promo, seen>>
    /\ UNCHANGED <<fetchVars, engineVars, dagVars, docVars, workerVars>>

\* vectorstore.add_documents(batch): the next BATCH_SIZE documents, or the rest
BuildBatch ==
    /\ build.pc = "building" /\ build.todo > 0
    /\ LET size == Min(BATCH_SIZE, build.todo)
       IN  /\ dirs' = [dirs EXCEPT ![BuildTarget].items =
                                        IndexItems(build.gen, build.added + size)]
           /\ build' = [build EXCEPT !.todo = build.todo - size, !.added = build.added + size]
    /\ UNCHANGED <<promo, seen>>
    /\ UNCHANGED <<fetchVars, engineVars, dagVars, docVars, workerVars>>

\* add_documents raises: main ends, the temporary directory stays as it is
BuildFail ==
    /\ build.pc = "building" /\ build.todo > 0
    /\ build' = [build EXCEPT !.pc = "idle", !.result = "error"]
    /\ UNCHANGED <<dirs, promo, seen>>
    /\ UNCHANGED <<fetchVars, engineVars, dagVars, docVars, workerVars>>

\* swap_active_db(TEMP_DB_DIR, ACTIVE_DB_DIR) up to the first loop: the active
\* directory is listed to be cleared, or created (mkdir with exist_ok)
SwapBegin ==
    /\ build.pc = "building" /\ build.todo = 0
    /\ IF ActiveExists(ACTIVE_DB_DIR)
       THEN /\ build' = [build EXCEPT !.pc = IF dirs[ACTIVE_DB_DIR].items = {} THEN "moving" ELSE "clearing",
                                      !.prior = dirs[ACTIVE_DB_DIR],
                                      !.promoted = dirs[TEMP_DB_DIR].items]
            /\ UNCHANGED dirs
       ELSE /\ build' = [build EXCEPT !.pc = "moving", !.prior = dirs[ACTIVE_DB_DIR],
                                      !.promoted = dirs[TEMP_DB_DIR].items]
            /\ dirs' = [dirs EXCEPT ![ACTIVE_DB_DIR] =
                          IF dirs[ACTIVE_DB_DIR].exists THEN dirs[ACTIVE_DB_DIR]
                          ELSE NewDir(ACTIVE_DB_DIR, build.n)]
    /\ promo' = [promo EXCEPT !.torn = TRUE]
    /\ UNCHANGED seen
    /\ UNCHANGED <<fetchVars, engineVars, dagVars, docVars, workerVars>>

\* one iteration of the clearing loop: shutil.rmtree(item) or item.unlink()
SwapClearItem ==
    /\ build.pc = "clearing"
    /\ \E item \in dirs[ACTIVE_DB_DIR].items :
         LET left == dirs[ACTIVE_DB_DIR].items \ {item}
         IN  /\ dirs' = [dirs EXCEPT ![ACTIVE_DB_DIR].items = left]
             /\ build' = [build EXCEPT !.pc = IF left = {} THEN "moving" ELSE "clearing"]
    /\ UNCHANGED <<promo, seen>>
    /\ UNCHANGED <<fetchVars, engineVars, dagVars, docVars, workerVars>>

\* mutation of SwapMoveItem: the temporary directory is renamed onto the active path
MutSwapMoveItem ==
    /\ build.pc = "moving"
    /\ dirs[TEMP_DB_DIR].items # {}
    /\ dirs' = [dirs EXCEPT ![ACTIVE_DB_DIR] = dirs[TEMP_DB_DIR],
                            ![TEMP_DB_DIR] = NewDir(TEMP_DB_DIR, build.n)]
    /\ UNCHANGED <<build, promo, seen>>
    /\ UNCHANGED <<fetchVars, engineVars, dagVars, docVars, workerVars>>

\* one iteration of the moving loop: shutil.move(item, active_dir / item.name)
SwapMoveItem ==
    /\ build.pc = "moving"
    /\ \E item \in dirs[TEMP_DB_DIR].items :
         dirs' = [dirs EXCEPT ![TEMP_DB_DIR].items = dirs[TEMP_DB_DIR].items \ {item},
                              ![ACTIVE_DB_DIR].items =
                                  {x \in dirs[ACTIVE_DB_DIR].items : x.name # item.name} \cup {item}]
    /\ UNCHANGED <<build, promo, seen>>
    /\ UNCHANGED <<fetchVars, engineVars, dagVars, docVars, workerVars>>

\* temp_dir.rmdir() once the temporary directory is empty: the swap returns
SwapFinish ==
    /\ build.pc = "moving"
    /\ dirs[TEMP_DB_DIR].exists /\ dirs[TEMP_DB_DIR].items = {}
    /\ dirs' = [dirs EXCEPT ![TEMP_DB_DIR] = AbsentDir]
    /\ build' = [build EXCEPT !.pc = "idle", !.result = "swapped"]
    /\ promo' = [good |-> build.promoted, torn |-> FALSE]
    /\ UNCHANGED seen
    /\ UNCHANGED <<fetchVars, engineVars, dagVars, docVars, workerVars>>

\* a filesystem call of the swap raises: main ends with the directories as they are
SwapFail ==
    /\ build.pc \in {"clearing", "moving"}
    /\ build' = [build EXCEPT !.pc = "idle", !.result = "error"]
    /\ UNCHANGED <<dirs, promo, seen>>
    /\ UNCHANGED <<fetchVars, engineVars, dagVars, docVars, workerVars>>

\* a reader runs load_vectorstore(): RuntimeError when the active directory is
\* absent, else it opens what is there
ReaderOpen ==
    /\ seen' = [status |-> IF dirs[ACTIVE_DB_DIR].exists THEN "opened" ELSE "not_found",
                items |-> dirs[ACTIVE_DB_DIR].items,
                good |-> promo.good,
                promoted |-> build.promoted,
                torn |-> promo.torn,
                phase |-> build.pc]
    /\ seen' # seen
    /\ UNCHANGED <<dirs, build, promo>>
    /\ UNCHANGED <<fetchVars, engineVars, dagVars, docVars, workerVars>>

BuildNext ==
    \/ MainNoData
    \/ MainStart
    \/ MainStartFail
    \/ BuildBatch
    \/ BuildFail
    \/ SwapBegin
    \/ SwapClearItem
    \/ SwapMoveItem
    \/ SwapFinish
    \/ SwapFail
    \/ ReaderOpen

(***************************************************************************)
(* Builder: properties                                                     *)
(***************************************************************************)
Swapped == build.pc = "idle" /\ build.result = "swapped"

\* C4: after swap_active_db has returned, the active directory holds exactly what the
\* temporary directory held before the swap, and the temporary directory is gone
C4_SwapPostcondition ==
    Swapped => /\ dirs[ACTIVE_DB_DIR].exists
               /\ dirs[ACTIVE_DB_DIR].items = build.promoted
               /\ ~dirs[TEMP_DB_DIR].exists

\* C4 witness: a swap has returned over an active directory that held an older index
\* and a stray file
C4_Witness ==
    /\ Swapped
    /\ build.prior.exists /\ StrayFile \in build.prior.items
    /\ build.promoted # {}

\* C4 witness, second case: a swap has returned where there was no active directory
C4_WitnessAbsent == Swapped /\ ~build.prior.exists

\* C5 as claimed: whenever a reader opens the active directory it finds the complete
\* previous index or the complete new index
C5_ReaderNeverSeesPartialIndex ==
    seen.status = "opened" => seen.items \in {seen.good, seen.promoted}

\* C5 as amended: a reader that opens the active directory while no promotion has
\* begun and not yet returned finds the complete index: the previous contents up to
\* the start of swap_active_db, the new index once it has returned
C5_CompleteOutsidePromotion ==
    (seen.status = "opened" /\ ~seen.torn) => seen.items = seen.good

\* C5 witness: a reader opened the active directory while the temporary index was
\* half built, and found the previous index
C5_Witness ==
    /\ seen.status = "opened" /\ ~seen.torn
    /\ seen.phase = "building"
    /\ seen.items = IndexItems(0, 1)
    /\ build.added > 0 /\ build.todo > 0

(***************************************************************************)
(* Engine, API, UI: constants and helpers                                  *)
(***************************************************************************)
\* DEFAULT_SPEAKER of rag_engine.py (transliterated)
DEFAULT_SPEAKER == "Takaichi Sanae"
OtherSpeaker == "Someone Else"

\* DEFAULT_TOP_K of app.py, and the bounds of Field(ge=1, le=50)
DEFAULT_TOP_K == 10
TOP_K_GE == 1
TOP_K_LE == 50

\* the slider of the Chat UI: minimum=1, maximum=20
SLIDER_MIN == 1
SLIDER_MAX == 20

DEFAULT_SESSION == "default"
SessionIds == {DEFAULT_SESSION, "alice"}

\* the texts of a call: the n-th call asks question n and, when the model answers,
\* is given answer n (every call has a text of its own)
NextQuestion == lastCall.n + 1
NextAnswer == lastCall.n + 1

\* the result counts a client can send
TopKInputs == {0, 1, 50, 51}

\* the documents an index can hold, with their speaker metadata
AllDocs ==
    {[content |-> "doc1", speaker |-> DEFAULT_SPEAKER],
     [content |-> "doc2", speaker |-> DEFAULT_SPEAKER],
     [content |-> "doc3", speaker |-> OtherSpeaker]}

\* the contents the opened index can have: every document, or none of the target speaker
IndexChoices == {AllDocs, {d \in AllDocs : d.speaker # DEFAULT_SPEAKER}}

HumanMessage(text) == [role |-> "human", content |-> text]
AIMessage(text) == [role |-> "ai", content |-> text]

\* search_kwargs as they would be without the filter
MutSearchKwargs(top_k) == [k |-> top_k, filtered |-> FALSE, filter |-> [speaker |-> DEFAULT_SPEAKER]]

\* search_kwargs of answer_question: {"k": top_k, "filter": {"speaker": DEFAULT_SPEAKER}}
SearchKwargs(top_k) == [k |-> top_k, filtered |-> TRUE, filter |-> [speaker |-> DEFAULT_SPEAKER]]

\* the documents a metadata equality filter lets through
Matching(docs, kw) == {d \in docs : kw.filtered => d.speaker = kw.filter.speaker}

\* retriever.invoke: the possible results, the k most similar documents among the
\* matching ones (which ones they are depends on the embedding)
Retrieve(docs, kw) ==
    {r \in SUBSET Matching(docs, kw) : Cardinality(r) = Min(kw.k, Cardinality(Matching(docs, kw)))}

\* the key of get_session_history as it would be if every caller shared one entry
MutHistoryKey(session_id) == DEFAULT_SESSION

\* the key under which get_session_history keeps a session's history
HistoryKey(session_id) == session_id

\* the messages of a session's history object (none yet: no messages)
History(session_id) == IF store[session_id] = 0 THEN <<>> ELSE heap[store[session_id]]

\* the validation of top_k as it would be with ge=0
MutValidTopK(top_k) == 0 <= top_k /\ top_k <= TOP_K_LE

\* Field(ge=1, le=50) on top_k
ValidTopK(top_k) == TOP_K_GE <= top_k /\ top_k <= TOP_K_LE

\* AskRequest(**body): omitted fields take their defaults
AskRequest(body) ==
    [question |-> body.question,
     top_k |-> IF body.has_top_k THEN body.top_k ELSE DEFAULT_TOP_K,
     session_id |-> IF body.has_session_id THEN body.session_id ELSE DEFAULT_SESSION]

Bodies ==
    [question : {NextQuestion}, has_top_k : {TRUE}, top_k : TopKInputs,
     has_session_id : BOOLEAN, session_id : {"alice"}]
    \cup [question : {NextQuestion}, has_top_k : {FALSE}, top_k : {0},
          has_session_id : BOOLEAN, session_id : {"alice"}]

NoCall ==
    [n |-> 0, question |-> 0, top_k |-> 0, session_id |-> "", docs |-> {},
     chat_history |-> <<>>, outcome |-> "none", answer |-> 0,
     turns |-> [s \in SessionIds |-> <<>>]]

NoRequest == [n |-> 0, body |-> [question |-> 0, has_top_k |-> FALSE, top_k |-> 0,
                                has_session_id |-> FALSE, session_id |-> ""],
              status |-> "none", calls_before |-> 0, calls_after |-> 0]

(***************************************************************************)
(* Engine, API, UI: actions                                                *)
(***************************************************************************)
EngineIdle ==
    /\ engine = [status |-> "down", docs |-> {}]
    /\ store = [s \in SessionIds |-> 0]
    /\ heap = <<>>
    /\ lastCall = NoCall
    /\ api = NoRequest
    /\ ui = [history |-> <<>>, chatbot |-> <<>>]

\* mutation of EngineInit: the failure is logged and not raised again, the process
\* goes on to serve
MutEngineInit ==
    /\ engine.status = "down"
    /\ IF dirs[ACTIVE_DB_DIR].exists
       THEN \E docs \in IndexChoices : engine' = [status |-> "up", docs |-> docs]
       ELSE engine' = [status |-> "up", docs |-> {}]
    /\ UNCHANGED <<store, heap, lastCall, api, ui>>
    /\ UNCHANGED <<fetchVars, buildVars, dagVars, docVars, workerVars>>

\* the import of rag_engine: load_vectorstore and build_rag_chain_with_memory, or
\* the RuntimeError re-raised when the active directory is absent
EngineInit ==
    /\ engine.status = "down"
    /\ IF dirs[ACTIVE_DB_DIR].exists
       THEN \E docs \in IndexChoices : engine' = [status |-> "up", docs |-> docs]
       ELSE engine' = [status |-> "failed", docs |-> {}]
    /\ UNCHANGED <<store, heap, lastCall, api, ui>>
    /\ UNCHANGED <<fetchVars, buildVars, dagVars, docVars, workerVars>>

\* answer_question(question, top_k, session_id) with a model that answers: the
\* retrieval, then the chain with the session's history, which gains the two turns
Answered(question, top_k, session_id, docs, answer) ==
    LET key == HistoryKey(session_id)
        fresh == store[key] = 0
        obj == IF fresh THEN Len(heap) + 1 ELSE store[key]
        chat_history == IF fresh THEN <<>> ELSE heap[obj]
        after == chat_history \o <<HumanMessage(question), AIMessage(answer)>>
    IN  /\ store' = [store EXCEPT ![key] = obj]
        /\ heap' = IF fresh THEN Append(heap, after) ELSE [heap EXCEPT ![obj] = after]
        /\ lastCall' = [n |-> lastCall.n + 1, question |-> question, top_k |-> top_k,
                        session_id |-> session_id, docs |-> docs,
                        chat_history |-> chat_history, outcome |-> "answered",
                        answer |-> answer,
                        turns |-> [lastCall.turns EXCEPT ![session_id] =
                                     lastCall.turns[session_id]
                                        \o <<HumanMessage(question), AIMessage(answer)>>]]

\* answer_question when the model call raises: the session's entry exists, the
\* turns are not recorded
Unanswered(question, top_k, session_id, docs) ==
    LET key == HistoryKey(session_id)
        fresh == store[key] = 0
        obj == IF fresh THEN Len(heap) + 1 ELSE store[key]
        chat_history == IF fresh THEN <<>> ELSE heap[obj]
    IN  /\ store' = [store EXCEPT ![key] = obj]
        /\ heap' = IF fresh THEN Append(heap, <<>>) ELSE heap
        /\ lastCall' = [n |-> lastCall.n + 1, question |-> question, top_k |-> top_k,
                        session_id |-> session_id, docs |-> docs,
                        chat_history |-> chat_history, outcome |-> "error",
                        answer |-> 0, turns |-> lastCall.turns]

\* POST /ask with a body the validation refuses: 422, the handler is not entered
AskRejected ==
    /\ engine.status = "up" /\ api.n < MaxCalls
    /\ \E body \in Bodies :
         /\ ~ValidTopK(AskRequest(body).top_k)
         /\ api' = [n |-> api.n + 1, body |-> body, status |-> "rejected",
                    calls_before |-> lastCall.n, calls_after |-> lastCall.n]
    /\ UNCHANGED <<engine, store, heap, lastCall, ui>>
    /\ UNCHANGED <<fetchVars, buildVars, dagVars, docVars, workerVars>>

\* POST /ask: ask(req) hands the request's fields to answer_question
Ask ==
    /\ engine.status = "up" /\ api.n < MaxCalls /\ lastCall.n < MaxCalls
    /\ \E body \in Bodies :
         LET req == AskRequest(body)
         IN  /\ ValidTopK(req.top_k)
             /\ \E docs \in Retrieve(engine.docs, SearchKwargs(req.top_k)) :
                  \/ /\ Answered(req.question, req.top_k, req.session_id, docs, NextAnswer)
                     /\ api' = [n |-> api.n + 1, body |-> body, status |-> "ok",
                                calls_before |-> lastCall.n, calls_after |-> lastCall.n + 1]
                  \/ /\ Unanswered(req.question, req.top_k, req.session_id, docs)
                     /\ api' = [n |-> api.n + 1, body |-> body, status |-> "server_error",
                                calls_before |-> lastCall.n, calls_after |-> lastCall.n + 1]
    /\ UNCHANGED <<engine, ui>>
    /\ UNCHANGED <<fetchVars, buildVars, dagVars, docVars, workerVars>>

\* chat_fn(message, history, top_k): the user turn, answer_question with session
\* "default", the assistant turn; both outputs are the new history
ChatFn ==
    /\ engine.status = "up" /\ lastCall.n < MaxCalls
    /\ \E message \in {NextQuestion}, top_k \in {SLIDER_MIN, SLIDER_MAX} :
         \E docs \in Retrieve(engine.docs, SearchKwargs(top_k)) :
           \/ LET answer == NextAnswer IN
                /\ Answered(message, top_k, DEFAULT_SESSION, docs, answer)
                /\ LET history == ui.history \o <<[role |-> "user", content |-> message],
                                                 [role |-> "assistant", content |-> answer]>>
                   IN  ui' = [history |-> history, chatbot |-> history]
           \/ /\ Unanswered(message, top_k, DEFAULT_SESSION, docs)
              /\ ui' = ui
    /\ UNCHANGED <<engine, api>>
    /\ UNCHANGED <<fetchVars, buildVars, dagVars, docVars, workerVars>>

\* mutation of ClearHistory: the control also drops the engine's memory of the
\* session the Chat UI uses
MutClearHistory ==
    /\ engine.status = "up"
    /\ ui' = [history |-> <<>>, chatbot |-> <<>>]
    /\ store' = [store EXCEPT ![DEFAULT_SESSION] = 0]
    /\ UNCHANGED <<engine, heap, lastCall, api>>
    /\ UNCHANGED <<fetchVars, buildVars, dagVars, docVars, workerVars>>

\* clear_history(): both outputs empty
ClearHistory ==
    /\ engine.status = "up"
    /\ ui' = [history |-> <<>>, chatbot |-> <<>>]
    /\ UNCHANGED <<engine, store, heap, lastCall, api>>
    /\ UNCHANGED <<fetchVars, buildVars, dagVars, docVars, workerVars>>

EngineNext ==
    \/ EngineInit
    \/ AskRejected
    \/ Ask
    \/ ChatFn
    \/ ClearHistory

(***************************************************************************)
(* Engine, API, UI: properties                                             *)
(***************************************************************************)
\* C6: every session's history is exactly the turns of the calls made with that
\* session id, in order (a call with another id neither adds to it nor is given it),
\* and the history handed to a call is all the earlier turns of its own session
C6_SessionHistories ==
    /\ \A s \in SessionIds : History(s) = lastCall.turns[s]
    /\ lastCall.n > 0 =>
         lastCall.turns[lastCall.session_id] =
            lastCall.chat_history \o
              (IF lastCall.outcome = "answered"
               THEN <<HumanMessage(lastCall.question), AIMessage(lastCall.answer)>>
               ELSE <<>>)

\* C6 witness: a third call, on a session that already had turns, was handed them,
\* while the other session holds turns of its own
C6_Witness ==
    /\ lastCall.n = 3 /\ lastCall.outcome = "answered"
    /\ lastCall.chat_history # <<>>
    /\ \E s \in SessionIds : s # lastCall.session_id /\ History(s) # <<>>

\* C7: no document answer_question retrieves has a speaker other than the target
\* speaker, whatever the question, result count and session id of the caller
C7_OnlyTargetSpeaker ==
    \A d \in lastCall.docs : d.speaker = DEFAULT_SPEAKER

\* C7 witness: a call asked for more documents than the target speaker has, over an
\* index that also holds another speaker's document, and got the target speaker's
C7_Witness ==
    /\ lastCall.n > 0 /\ lastCall.docs # {}
    /\ lastCall.top_k > Cardinality(lastCall.docs)
    /\ \E d \in engine.docs : d.speaker # DEFAULT_SPEAKER

\* the result count and session id of a request body, and whether the count is out
\* of the range 1..50
SentTopK == IF api.body.has_top_k THEN api.body.top_k ELSE 10
SentSession == IF api.body.has_session_id THEN api.body.session_id ELSE "default"
OutOfRange == SentTopK < 1 \/ SentTopK > 50

\* the outcome of the last POST /ask: rejected exactly when the count is out of
\* range, and then without a call of the engine; else the engine was called once,
\* with the count and session id sent, or 10 and "default" where omitted
C8_Outcome ==
    api.n > 0 =>
      /\ (api.status = "rejected") <=> OutOfRange
      /\ OutOfRange => api.calls_after = api.calls_before
      /\ ~OutOfRange => api.calls_after = api.calls_before + 1
      /\ (~OutOfRange /\ lastCall.n = api.calls_after) =>
            /\ lastCall.top_k = SentTopK
            /\ lastCall.session_id = SentSession

\* a rejected POST /ask leaves the session-history map and the engine as they were
C8_RejectedStep ==
    (api'.n # api.n /\ api'.status = "rejected") =>
        /\ store' = store /\ heap' = heap /\ lastCall' = lastCall

\* C8: POST /ask with a result count below 1 or above 50 is rejected and never
\* reaches the engine; 1 and 50 are accepted; omitted fields default to 10, "default"
C8_AskValidation == []C8_Outcome /\ [][C8_RejectedStep]_vars

\* C8 witness: a request with count 51 was rejected right after one with count 50
\* had reached the engine
C8_Witness ==
    /\ api.status = "rejected" /\ api.body.has_top_k /\ api.body.top_k = 51
    /\ lastCall.n > 0 /\ lastCall.top_k = 50
    /\ api.calls_before = lastCall.n

(***************************************************************************)
(* Scheduler: the DAG and the task policy                                  *)
(***************************************************************************)
FETCH == "fetch_diet_speeches"
UPDATE == "update_vectorstore"
Tasks == {FETCH, UPDATE}

\* default_args["retries"]
retries == 1

\* default_args["retry_delay"], in minutes
retry_delay == 5

\* the retry test as it would be with no retry configured
MutRetriesLeft(try_number) == FALSE

\* whether a task that failed at its try_number-th try is tried again
RetriesLeft(try_number) == try_number <= retries

\* the task graph as it would be without the dependency
MutUpstreamOf(task) == {}

\* fetch_diet_speeches >> update_vectorstore
UpstreamOf(task) == IF task = UPDATE THEN {FETCH} ELSE {}

NoRun ==
    [run |-> 0,
     state |-> [t \in Tasks |-> "success"],
     try_number |-> [t \in Tasks |-> 0],
     waited |-> [t \in Tasks |-> 0],
     retried_after |-> [t \in Tasks |-> 0]]

Finished(st) == st \in {"success", "failed", "upstream_failed"}

RunOver == \A t \in Tasks : Finished(dag.state[t])

\* the state of the DAG run: failed when a task ended failed or upstream_failed
RunState ==
    IF ~RunOver THEN "running"
    ELSE IF \E t \in Tasks : dag.state[t] \in {"failed", "upstream_failed"} THEN "failed"
    ELSE "success"

DagIdle == dag = NoRun

\* the schedule ("8 2 * * *") creates the next DAG run
DagTrigger ==
    /\ RunOver /\ dag.run < MaxDagRuns
    /\ dag' = [NoRun EXCEPT !.run = dag.run + 1, !.state = [t \in Tasks |-> "none"]]
    /\ UNCHANGED <<fetchVars, buildVars, engineVars, docVars, workerVars>>

\* the scheduler starts a task whose upstream tasks all succeeded (trigger rule
\* all_success), or starts it again once its retry delay has passed
TaskStart(t) ==
    /\ \/ /\ dag.state[t] = "none"
          /\ \A u \in UpstreamOf(t) : dag.state[u] = "success"
          /\ dag' = [dag EXCEPT !.state[t] = "running", !.try_number[t] = dag.try_number[t] + 1]
       \/ /\ dag.state[t] = "up_for_retry"
          /\ dag.waited[t] >= retry_delay
          /\ dag' = [dag EXCEPT !.state[t] = "running", !.try_number[t] = dag.try_number[t] + 1,
                                !.retried_after[t] = dag.waited[t]]
    /\ UNCHANGED <<fetchVars, buildVars, engineVars, docVars, workerVars>>

\* the task's command exits 0
TaskSucceed(t) ==
    /\ dag.state[t] = "running"
    /\ dag' = [dag EXCEPT !.state[t] = "success"]
    /\ UNCHANGED <<fetchVars, buildVars, engineVars, docVars, workerVars>>

\* the task's command exits non-zero: up for retry while tries are left, else failed
TaskFail(t) ==
    /\ dag.state[t] = "running"
    /\ dag' = IF RetriesLeft(dag.try_number[t])
              THEN [dag EXCEPT !.state[t] = "up_for_retry", !.waited[t] = 0]
              ELSE [dag EXCEPT !.state[t] = "failed"]
    /\ UNCHANGED <<fetchVars, buildVars, engineVars, docVars, workerVars>>

\* a task whose upstream task failed is not run
TaskSkip(t) ==
    /\ dag.state[t] = "none"
    /\ \E u \in UpstreamOf(t) : dag.state[u] \in {"failed", "upstream_failed"}
    /\ dag' = [dag EXCEPT !.state[t] = "upstream_failed"]
    /\ UNCHANGED <<fetchVars, buildVars, engineVars, docVars, workerVars>>

\* a minute passes for a task waiting for its retry
Tick(t) ==
    /\ dag.state[t] = "up_for_retry"
    /\ dag.waited[t] < retry_delay
    /\ dag' = [dag EXCEPT !.waited[t] = dag.waited[t] + 1]
    /\ UNCHANGED <<fetchVars, buildVars, engineVars, docVars, workerVars>>

DagNext ==
    \/ DagTrigger
    \/ \E t \in Tasks : TaskStart(t)
    \/ \E t \in Tasks : TaskSucceed(t)
    \/ \E t \in Tasks : TaskFail(t)
    \/ \E t \in Tasks : TaskSkip(t)
    \/ \E t \in Tasks : Tick(t)

\* the scheduler keeps scheduling: a startable task is started, time passes
DagFairness ==
    /\ \A t \in Tasks : WF_vars(TaskStart(t))
    /\ \A t \in Tasks : WF_vars(Tick(t))

(***************************************************************************)
(* Scheduler: properties                                                   *)
(***************************************************************************)
WasStarted(t) == dag.try_number[t] > 0

\* C9: update_vectorstore is started only once fetch_diet_speeches has succeeded,
\* the two never run together, and after fetch has failed update is never started
C9_FetchBeforeUpdate ==
    /\ (WasStarted(UPDATE) \/ dag.state[UPDATE] \in {"running", "up_for_retry", "success", "failed"})
          => dag.state[FETCH] = "success"
    /\ ~(dag.state[FETCH] \in {"running", "up_for_retry"} /\ dag.state[UPDATE] \in {"running", "up_for_retry"})
    /\ dag.state[FETCH] = "failed" =>
          /\ ~WasStarted(UPDATE)
          /\ dag.state[UPDATE] \in {"none", "upstream_failed"}

\* C9 witness: update is running in a run whose fetch succeeded at its second try
C9_Witness ==
    /\ dag.run > 0
    /\ dag.state[UPDATE] = "running"
    /\ dag.state[FETCH] = "success" /\ dag.try_number[FETCH] = 2

\* C9 witness, second case: fetch failed for good and update was marked, not run
C9_WitnessFailed ==
    /\ dag.state[FETCH] = "failed" /\ dag.state[UPDATE] = "upstream_failed"

\* what the retry policy lets a task be: at most two tries; after the first failure
\* up for retry, failed (and the run with it) only after the second; the second try
\* starts 5 minutes after the failure
C10_Policy ==
    \A t \in Tasks :
      /\ dag.try_number[t] <= 2
      /\ dag.state[t] = "up_for_retry" => dag.try_number[t] = 1
      /\ dag.state[t] = "failed" => dag.try_number[t] = 2
      /\ (dag.state[t] = "failed" /\ RunOver) => RunState = "failed"
      /\ dag.try_number[t] = 2 => dag.retried_after[t] = 5

\* a task that failed once is tried again
C10_Retried ==
    \A t \in Tasks :
      (dag.state[t] = "up_for_retry") ~> (dag.state[t] = "running" /\ dag.try_number[t] = 2)

\* C10: a failed task is retried exactly once, 5 minutes after the failure; a second
\* failure fails the run; no task is tried more than twice in a run
C10_OneRetryAfterDelay == []C10_Policy /\ C10_Retried

\* C10 witness: a task failed at its second try, which began 5 minutes after the
\* first failure, and the run is failed
C10_Witness ==
    /\ dag.state[FETCH] = "failed" /\ dag.try_number[FETCH] = 2
    /\ dag.retried_after[FETCH] = 5
    /\ RunOver /\ RunState = "failed"

(***************************************************************************)
(* Builder: document generation (build_documents)                          *)
(***************************************************************************)
\* MAX_LEN_NO_SPLIT, CHUNK_SIZE (1200 in the source) and CHUNK_OVERLAP (200),
\* scaled down; a text is a sequence of characters
MAX_LEN_NO_SPLIT == 5
CHUNK_SIZE == 5
CHUNK_OVERLAP == 1
MaxText == 4         \* characters of a record's speech

\* the splitter's separators, in the order it tries them ("." and "," stand for
\* the ideographic full stop and comma)
separators == <<"\n\n", "\n", ".", ",", " ">>

\* a record of the JSONL file, with the fields document generation reads
SpeechChars == {"x", "."}
Speeches == UNION {[1..n -> SpeechChars] : n \in 0..MaxText}
DocRecord(id, speech) ==
    [speechID |-> id, date |-> "2024-01-01", speaker |-> DEFAULT_SPEAKER, speech |-> speech]

\* build_base_text: the header lines, an empty line, the speech
build_base_text(rec) ==
    <<rec.date, "\n", rec.speaker, "\n\n">> \o rec.speech

\* build_metadata
build_metadata(rec, rec_idx) ==
    [speechID |-> rec.speechID, date |-> rec.date, speaker |-> rec.speaker,
     record_index |-> rec_idx]

\* {**meta_base, "chunk_index": ..., "chunk_count": ...}
Document(content, meta_base, chunk_idx, chunk_count) ==
    [page_content |-> content,
     metadata |-> [chunk_index |-> chunk_idx, chunk_count |-> chunk_count] @@ meta_base]

MinOf(S) == CHOOSE m \in S : \A x \in S : m <= x

RECURSIVE TotalLen(_)
TotalLen(parts) == IF parts = <<>> THEN 0 ELSE Len(Head(parts)) + TotalLen(Tail(parts))

RECURSIVE Join(_)
Join(parts) == IF parts = <<>> THEN <<>> ELSE Head(parts) \o Join(Tail(parts))

\* the splitter cuts a text before every occurrence of the separator (the separator
\* stays at the head of the piece that follows it) and drops empty pieces
RECURSIVE split_text_with_regex(_, _, _)
split_text_with_regex(text, separator, start) ==
    IF start > Len(text) THEN <<>>
    ELSE LET nexts == {i \in (start + 1)..Len(text) : text[i] = separator}
             end == IF nexts = {} THEN Len(text) ELSE MinOf(nexts) - 1
         IN  <<SubSeq(text, start, end)>> \o split_text_with_regex(text, separator, end + 1)

\* the splitter's merge: before a piece that would overflow the chunk, the pieces
\* kept from the chunk just closed are dropped from the front down to the overlap
RECURSIVE DropToOverlap(_, _)
DropToOverlap(current_doc, len) ==
    LET total == TotalLen(current_doc)
    IN  IF total > CHUNK_OVERLAP \/ (total + len > CHUNK_SIZE /\ total > 0)
        THEN DropToOverlap(Tail(current_doc), len)
        ELSE current_doc

RECURSIVE MergeFrom(_, _, _)
MergeFrom(splits, k, current_doc) ==
    IF k > Len(splits)
    THEN IF current_doc = <<>> THEN <<>> ELSE <<Join(current_doc)>>
    ELSE LET d == splits[k]
         IN  IF TotalLen(current_doc) + Len(d) > CHUNK_SIZE /\ current_doc # <<>>
             THEN <<Join(current_doc)>>
                  \o MergeFrom(splits, k + 1, Append(DropToOverlap(current_doc, Len(d)), d))
             ELSE MergeFrom(splits, k + 1, Append(current_doc, d))

merge_splits(splits) == MergeFrom(splits, 1, <<>>)

\* the recursive splitter: split by the first separator the text contains, merge the
\* pieces shorter than the chunk size, split the others by the separators that are
\* left, or keep them whole when none is left
RECURSIVE SplitBy(_, _)
RECURSIVE Collect(_, _, _, _)
SplitBy(text, seps) ==
    LET found == {i \in 1..Len(seps) : \E j \in 1..Len(text) : text[j] = seps[i]}
        i == IF found = {} THEN Len(seps) ELSE MinOf(found)
        new_separators == IF found = {} THEN <<>> ELSE SubSeq(seps, i + 1, Len(seps))
    IN  Collect(split_text_with_regex(text, seps[i], 1), 1, <<>>, new_separators)

Collect(splits, k, good_splits, new_separators) ==
    IF k > Len(splits)
    THEN merge_splits(good_splits)
    ELSE LET s == splits[k]
         IN  IF Len(s) < CHUNK_SIZE
             THEN Collect(splits, k + 1, Append(good_splits, s), new_separators)
             ELSE merge_splits(good_splits)
                  \o (IF new_separators = <<>> THEN <<s>> ELSE SplitBy(s, new_separators))
                  \o Collect(splits, k + 1, <<>>, new_separators)

\* splitter.split_text
split_text(text) == SplitBy(text, separators)

\* mutation of TotalChunks: every chunk reports a count of one
MutTotalChunks(chunks) == 1

\* total_chunks = len(chunks)
TotalChunks(chunks) == Len(chunks)

IdleDocs == [pc |-> "idle", lines |-> <<>>, rec_idx |-> 0, chunks |-> <<>>,
             chunk_idx |-> 0, out |-> <<>>]

DocsIdle == docgen = IdleDocs

\* the record files document generation is run over: none, one or two records
DocFiles ==
    {<<>>} \cup {<<DocRecord(1, s)>> : s \in Speeches}
           \cup {<<DocRecord(1, s), DocRecord(2, t)>> : s, t \in Speeches}

DocsStart == docgen \in {[IdleDocs EXCEPT !.pc = "next", !.lines = l] : l \in DocFiles}

\* the next record is short: one document with the whole text
DocsYieldWhole ==
    /\ docgen.pc = "next"
    /\ docgen.rec_idx < Len(docgen.lines)
    /\ LET rec_idx == docgen.rec_idx + 1
           rec == docgen.lines[rec_idx]
           base_text == build_base_text(rec)
           meta_base == build_metadata(rec, rec_idx)
       IN  /\ Len(base_text) <= MAX_LEN_NO_SPLIT
           /\ docgen' = [docgen EXCEPT !.rec_idx = rec_idx,
                            !.out = Append(@, Document(base_text, meta_base, 0, 1))]
    /\ UNCHANGED <<fetchVars, buildVars, engineVars, dagVars, workerVars>>

\* the next record is long: it is split
DocsSplit ==
    /\ docgen.pc = "next"
    /\ docgen.rec_idx < Len(docgen.lines)
    /\ LET rec_idx == docgen.rec_idx + 1
           base_text == build_base_text(docgen.lines[rec_idx])
       IN  /\ Len(base_text) > MAX_LEN_NO_SPLIT
           /\ docgen' = [docgen EXCEPT !.rec_idx = rec_idx, !.pc = "chunks",
                            !.chunks = split_text(base_text), !.chunk_idx = 0]
    /\ UNCHANGED <<fetchVars, buildVars, engineVars, dagVars, workerVars>>

\* one document per chunk
DocsYieldChunk ==
    /\ docgen.pc = "chunks"
    /\ docgen.chunk_idx < Len(docgen.chunks)
    /\ LET rec_idx == docgen.rec_idx
           meta_base == build_metadata(docgen.lines[rec_idx], rec_idx)
           chunk == docgen.chunks[docgen.chunk_idx + 1]
       IN  docgen' = [docgen EXCEPT !.chunk_idx = @ + 1,
                         !.out = Append(@, Document(chunk, meta_base, docgen.chunk_idx,
                                                    TotalChunks(docgen.chunks)))]
    /\ UNCHANGED <<fetchVars, buildVars, engineVars, dagVars, workerVars>>

\* the chunks of the record are used up
DocsChunksDone ==
    /\ docgen.pc = "chunks"
    /\ docgen.chunk_idx = Len(docgen.chunks)
    /\ docgen' = [docgen EXCEPT !.pc = "next", !.chunks = <<>>, !.chunk_idx = 0]
    /\ UNCHANGED <<fetchVars, buildVars, engineVars, dagVars, workerVars>>

\* the file is used up
DocsExhausted ==
    /\ docgen.pc = "next"
    /\ docgen.rec_idx = Len(docgen.lines)
    /\ docgen' = [docgen EXCEPT !.pc = "done"]
    /\ UNCHANGED <<fetchVars, buildVars, engineVars, dagVars, workerVars>>

DocsNext ==
    \/ DocsYieldWhole
    \/ DocsSplit
    \/ DocsYieldChunk
    \/ DocsChunksDone
    \/ DocsExhausted

(***************************************************************************)
(* Document generation: properties                                         *)
(***************************************************************************)
\* the documents yielded for record number i, in the order they were yielded
DocsOf(i) == SelectSeq(docgen.out, LAMBDA d : d.metadata.record_index = i)

\* records whose documents have all been yielded
RecordsDone ==
    {i \in 1..docgen.rec_idx : i < docgen.rec_idx \/ docgen.pc # "chunks"}

\* C11: for every record, document generation yields N documents with chunk
\* indices 0..N-1 in order, each reporting chunk count N and the record's metadata
\* (records in file order); N = 1 with the whole formatted text when its length is
\* at most MAX_LEN_NO_SPLIT, and N = the number of chunks of the splitter, with
\* the chunks as contents, when it is longer
C11_DocumentsPerRecord ==
    /\ \A a, b \in 1..Len(docgen.out) :
           a < b => docgen.out[a].metadata.record_index <= docgen.out[b].metadata.record_index
    /\ \A d \in {docgen.out[a] : a \in 1..Len(docgen.out)} :
           d.metadata.record_index \in 1..docgen.rec_idx
    /\ \A i \in RecordsDone :
           LET rec == docgen.lines[i]
               text == <<rec.date, "\n", rec.speaker, "\n\n">> \o rec.speech
               ds == DocsOf(i)
               N == Len(ds)
           IN  /\ \A k \in 1..N :
                      /\ ds[k].metadata.chunk_index = k - 1
                      /\ ds[k].metadata.chunk_count = N
                      /\ ds[k].metadata.speechID = rec.speechID
                      /\ ds[k].metadata.date = rec.date
                      /\ ds[k].metadata.speaker = rec.speaker
                      /\ ds[k].metadata.record_index = i
               /\ Len(text) <= MAX_LEN_NO_SPLIT => N = 1 /\ ds[1].page_content = text
               /\ Len(text) > MAX_LEN_NO_SPLIT =>
                      /\ N = Len(split_text(text))
                      /\ \A k \in 1..N : ds[k].page_content = split_text(text)[k]

\* a file of two records has been turned into documents: the first record's text
\* has exactly the longest length that is not split, the second was split in two
\* or more chunks
C11_Witness ==
    /\ docgen.pc = "done"
    /\ Len(docgen.lines) = 2
    /\ Len(build_base_text(docgen.lines[1])) = MAX_LEN_NO_SPLIT
    /\ Len(DocsOf(1)) = 1
    /\ Len(build_base_text(docgen.lines[2])) > MAX_LEN_NO_SPLIT
    /\ Len(DocsOf(2)) >= 2

(***************************************************************************)
(* Chat UI: the clear-history control                                      *)
(***************************************************************************)
\* a step that empties a transcript that was not empty: the clear-history control
ClearStep == ui.chatbot # <<>> /\ ui'.chatbot = <<>>

\* a step that adds turns to the transcript: a question answered through the Chat UI
ChatStep == ui'.history # ui.history /\ ui'.history # <<>>

\* C12: the clear-history control empties the chatbot and the UI state and leaves
\* the engine's session memory as it was (the history of session "default"
\* included); a question asked through the Chat UI, after a clearing too, is handed
\* every earlier turn of session "default" that the engine holds, and adds its own
C12_ClearStepAndChatStep ==
    /\ ClearStep =>
         /\ ui'.history = <<>>
         /\ store' = store /\ heap' = heap
         /\ History("default")' = History("default")
         /\ lastCall' = lastCall
    /\ ChatStep =>
         /\ lastCall'.session_id = "default"
         /\ lastCall'.chat_history = History("default")
         /\ lastCall'.chat_history = lastCall.turns["default"]
         /\ History("default")' =
               History("default") \o <<HumanMessage(lastCall'.question),
                                       AIMessage(lastCall'.answer)>>

C12_ClearKeepsEngineMemory == [][C12_ClearStepAndChatStep]_vars

\* C12 witness: only the Chat UI was used; the transcript holds one exchange, the
\* one of the last call, which was handed earlier turns: the transcript was cleared
\* in between
C12_Witness ==
    /\ api.n = 0
    /\ lastCall.n >= 2 /\ lastCall.outcome = "answered"
    /\ Len(ui.history) = 2 /\ ui.chatbot = ui.history
    /\ ui.history[1].content = lastCall.question
    /\ Len(lastCall.chat_history) >= 2
    /\ Len(History("default")) = Len(lastCall.chat_history) + 2

(***************************************************************************)
(* Engine: initialization failure                                          *)
(***************************************************************************)
\* nothing was served: no answer_question call, no request, no transcript, no
\* session history
NothingServed ==
    /\ lastCall = NoCall
    /\ api = NoRequest
    /\ ui = [history |-> <<>>, chatbot |-> <<>>]
    /\ \A s \in SessionIds : store[s] = 0
    /\ heap = <<>>

\* C13: when the active index directory does not exist at the start of the engine,
\* the initialization fails and the process serves nothing, ever; and no
\* answer_question call retrieves anything unless the initialization has succeeded
C13_InitFailureIsFatal ==
    /\ ~dirs[ACTIVE_DB_DIR].exists => engine.status \in {"down", "failed"} /\ NothingServed
    /\ engine.status # "up" => NothingServed
    /\ lastCall.n > 0 \/ api.n > 0 => engine.status = "up" /\ dirs[ACTIVE_DB_DIR].exists

\* C13 witness: the engine was started over an absent active directory and its
\* initialization has failed
C13_Witness ==
    /\ ~dirs[ACTIVE_DB_DIR].exists
    /\ engine.status = "failed"

(***************************************************************************)
(* Fetcher: errors, empty ranges, mode and state                           *)
(***************************************************************************)
\* a step in which a run ends with an HTTP error: on the count query (the run has
\* just begun) or on a page request
ErrorStep ==
    /\ runs' = runs + 1 \/ fetch.pc = "paging"
    /\ fetch'.pc = "idle"
    /\ hist'[Len(hist')].outcome = "error"

\* the requests of a run that were answered: the count query and the pages
AnsweredRequests(s) == IF s.total = 0 THEN 0 ELSE 1 + s.requests

\* the requests a run makes when nothing fails
AllRequests(s) == 1 + Ceil(s.total, MAX_RECORDS_PER_REQUEST)

\* C14: an HTTP error on the count query or on a page request ends the run in the
\* same step, with the error as its outcome: the failed request is not repeated and
\* the requests after it are not made, and the fetch state file and the fetched-ID
\* file are as they were before the run (while a run is paging they are untouched)
C14_ErrorState ==
    /\ fetch.pc = "paging" => idsFile = cur.before.ids /\ stateFile = cur.before.state
    /\ hist # <<>> /\ Last.outcome = "error" =>
         /\ Last.after.ids = Last.before.ids
         /\ Last.after.state = Last.before.state
         /\ AnsweredRequests(Last) < AllRequests(Last)

C14_ErrorStep ==
    ErrorStep =>
       /\ idsFile' = idsFile /\ stateFile' = stateFile
       /\ fetch' = IdleFetch
       /\ runs' = runs \/ fetch.pc = "idle"

C14_HttpErrorAborts == []C14_ErrorState /\ [][C14_ErrorStep]_vars

\* C14 witness: a run of two pages or more ended with an error after it had
\* written records
C14_Witness ==
    /\ hist # <<>> /\ Last.outcome = "error"
    /\ Last.total >= 2 /\ Last.requests >= 1
    /\ Last.wrote # <<>>
    /\ fetch.pc = "idle"

\* C14 witness: the count query of a run failed
C14_WitnessCount ==
    /\ hist # <<>> /\ Last.outcome = "error"
    /\ Last.total = 0 /\ Last.requests = 0
    /\ Last.before.state.exists

\* a step in which a run ends because the count query returned zero
NoDataStep ==
    /\ runs' = runs + 1
    /\ fetch'.pc = "idle"
    /\ hist'[Len(hist')].outcome = "nodata"

\* C15: a run whose count query returns zero completes without error and without a
\* page request, whether it is a full or an incremental run, and leaves the record
\* file, the fetched-ID file and the fetch state as they were
C15_NoDataState ==
    hist # <<>> /\ Last.outcome = "nodata" =>
       /\ Last.total = 0 /\ Last.requests = 0
       /\ Last.wrote = <<>>
       /\ Last.after = Last.before

C15_NoDataStep ==
    /\ NoDataStep =>
         outFile' = outFile /\ idsFile' = idsFile /\ stateFile' = stateFile
    /\ (runs' = runs + 1
           /\ Len(SelectSeq(upstream, LAMBDA id : FromDateOf <= DateOf(id) /\ DateOf(id) <= Today)) = 0)
         => /\ fetch'.pc = "idle"
            /\ hist'[Len(hist')].outcome \in {"nodata", "error"}
            /\ outFile' = outFile /\ idsFile' = idsFile /\ stateFile' = stateFile

C15_ZeroCountChangesNothing == []C15_NoDataState /\ [][C15_NoDataStep]_vars

\* C15 witness: an incremental run over existing files found nothing in its range
C15_Witness ==
    /\ hist # <<>> /\ Last.outcome = "nodata"
    /\ Last.mode = "incremental"
    /\ Last.before.out.lines # <<>>
    /\ Last.before.state.exists /\ Last.before.ids.exists

\* C15 witness: a full run found nothing; no file exists afterwards
C15_WitnessFull ==
    /\ hist # <<>> /\ Last.outcome = "nodata"
    /\ Last.mode = "initial"
    /\ ~outFile.exists /\ ~idsFile.exists /\ ~stateFile.exists

(***************************************************************************)
(* Builder: the entry point, the build phase, the active directory         *)
(***************************************************************************)
\* a step in which main is entered
MainStep == build.pc = "idle" /\ build'.n = build.n + 1

\* a step in which swap_active_db is entered
PromotionStep == build.pc = "building" /\ build'.pc \in {"clearing", "moving"}

\* C16: main entered without a record file ends at once with the not-found error
\* and both index directories as they were; main entered with a record file does
\* not report not-found, first fills the temporary directory, and enters the
\* promotion only when the temporary directory holds the index of all documents
C16_MainStep ==
    /\ MainStep /\ ~outFile.exists =>
         /\ build'.pc = "idle" /\ build'.result = "not_found"
         /\ dirs' = dirs
    /\ MainStep /\ outFile.exists =>
         /\ build'.result # "not_found"
         /\ dirs'[ACTIVE_DB_DIR] = dirs[ACTIVE_DB_DIR]
    /\ PromotionStep =>
         /\ outFile.exists
         /\ build.added = Len(outFile.lines)
         /\ dirs[TEMP_DB_DIR].exists
         /\ dirs[TEMP_DB_DIR].items = IndexItems(build.gen, Len(outFile.lines))

C16_MainState ==
    /\ build.result = "not_found" => ~outFile.exists /\ build.pc = "idle"
    /\ ~outFile.exists => build.pc = "idle" /\ build.result \in {"none", "not_found"}

C16_NotFoundOrBuildThenPromote == []C16_MainState /\ [][C16_MainStep]_vars

\* C16 witness: main has failed with not-found over a stale temporary directory and
\* an active index, which are both still there
C16_Witness ==
    /\ build.result = "not_found" /\ build.n > 0
    /\ dirs[TEMP_DB_DIR].exists /\ dirs[TEMP_DB_DIR].items # {}
    /\ dirs[ACTIVE_DB_DIR].exists /\ dirs[ACTIVE_DB_DIR].items # {}

\* C16 witness: main has built three documents in two batches and is promoting
C16_WitnessPromoting ==
    /\ build.pc \in {"clearing", "moving"}
    /\ build.added = 3
    /\ outFile.exists

\* the mode and the range of a run agree with the files it started from: full
\* from the first day exactly when the record file was absent or empty, else
\* incremental from 3 days before the recorded date, or from the first day when
\* no date was recorded; up to today
RangeAsChosen(mode, from_date, until, before) ==
    /\ mode = "initial" <=> (~before.out.exists \/ before.out.lines = <<>>)
    /\ mode = "incremental" <=> (before.out.exists /\ before.out.lines # <<>>)
    /\ mode = "initial" => from_date = INIT_FROM_DATE
    /\ mode = "incremental" =>
         from_date = IF before.state.exists /\ before.state.last_fetched_date # None
                     THEN before.state.last_fetched_date - 3
                     ELSE INIT_FROM_DATE
    /\ until = Today

\* C17: auto_fetch runs a full fetch from the first day of the backfill exactly
\* when the record file is absent or empty, and an incremental fetch otherwise,
\* from 3 days before the recorded last_fetched_date or from the first day of the
\* backfill when none is recorded; both fetch up to today
C17_ModeAndRange ==
    /\ fetch.pc = "paging" => RangeAsChosen(fetch.mode, fetch.from_date, fetch.until, cur.before)
    /\ hist # <<>> => RangeAsChosen(Last.mode, Last.from_date, Last.until, Last.before)

\* C17 witness: an incremental run has started 3 days before the recorded date
C17_Witness ==
    /\ hist # <<>> /\ Last.mode = "incremental"
    /\ Last.before.state.exists
    /\ Last.from_date = Last.before.state.last_fetched_date - 3
    /\ Last.outcome = "done"

\* C17 witness: an incremental run over a record file left by an aborted full run,
\* with no state file, has started from the first day
C17_WitnessNoState ==
    /\ hist # <<>> /\ Last.mode = "incremental"
    /\ ~Last.before.state.exists
    /\ Last.from_date = INIT_FROM_DATE

\* C17 witness: a full run over a record file that exists and is empty
C17_WitnessEmptyFile ==
    /\ hist # <<>> /\ Last.mode = "initial"
    /\ Last.before.out.exists /\ Last.before.out.lines = <<>>
    /\ Last.total > 0

\* the latest date among records
MaxDate(recs) ==
    CHOOSE d \in {recs[k].date : k \in 1..Len(recs)} :
        \A k \in 1..Len(recs) : recs[k].date <= d

\* C18: after a run that completed and wrote at least one record, the fetch state
\* holds the latest date among the records that run wrote; a run that wrote no
\* record leaves the fetch state as it was
C18_StateIsLatestWrittenDate ==
    hist # <<>> =>
       /\ (Last.outcome = "done" /\ Last.wrote # <<>>) =>
             /\ Last.after.state.exists
             /\ Last.after.state.last_fetched_date = MaxDate(Last.wrote)
       /\ Last.wrote = <<>> => Last.after.state = Last.before.state

\* C18 witness: an incremental run wrote only a record older than the recorded
\* date: the state now holds that older date
C18_Witness ==
    /\ hist # <<>> /\ Last.outcome = "done" /\ Last.mode = "incremental"
    /\ Last.wrote # <<>>
    /\ Last.before.state.exists
    /\ Last.after.state.last_fetched_date < Last.before.state.last_fetched_date

\* C18 witness: an incremental run went through its pages and wrote nothing
C18_WitnessNothingNew ==
    /\ hist # <<>> /\ Last.outcome = "done" /\ Last.mode = "incremental"
    /\ Last.total > 0 /\ Last.wrote = <<>>
    /\ Last.before.state.exists

\* a step outside the promotion: main is not in swap_active_db before it nor after it
BuildPhaseStep ==
    /\ build.pc \in {"idle", "building"}
    /\ build'.pc \in {"idle", "building"}

\* C19: only the promotion modifies the active index directory: every step of main
\* outside swap_active_db (the removal of the stale temporary directory, the
\* creation of the collection, every batch insert, and each of them failing)
\* leaves the active directory exactly as it is
C19_BuildPhaseStep ==
    /\ BuildPhaseStep => dirs'[ACTIVE_DB_DIR] = dirs[ACTIVE_DB_DIR]
    /\ dirs'[ACTIVE_DB_DIR] # dirs[ACTIVE_DB_DIR] =>
          /\ build.pc \in {"building", "clearing", "moving"}
          /\ build'.pc \in {"clearing", "moving"}
          /\ build.todo = 0

C19_BuildPhaseState ==
    (build.pc \in {"idle", "building"} /\ ~promo.torn) =>
        dirs[ACTIVE_DB_DIR].items = promo.good

C19_ActiveOnlyChangedByPromotion == []C19_BuildPhaseState /\ [][C19_BuildPhaseStep]_vars

\* C19 witness: a batch insert has failed after another had succeeded; the active
\* directory still holds the complete index it held before
C19_Witness ==
    /\ build.pc = "idle" /\ build.result = "error"
    /\ build.added > 0 /\ build.todo > 0
    /\ ~promo.torn
    /\ dirs[ACTIVE_DB_DIR].items # {}
    /\ dirs[ACTIVE_DB_DIR].items = promo.good
    /\ dirs[TEMP_DB_DIR].exists

\* a step of swap_active_db, its first included
SwapStep == PromotionStep \/ build.pc \in {"clearing", "moving"}

\* C20: the promotion never removes, renames or replaces the active index
\* directory: when it exists before swap_active_db it is the same directory at
\* every step of the swap and afterwards, and a step of the swap only deletes child
\* entries of it or adds child entries taken from the temporary directory
C20_SwapStep ==
    (SwapStep /\ dirs[ACTIVE_DB_DIR].exists) =>
        /\ dirs'[ACTIVE_DB_DIR].exists
        /\ dirs'[ACTIVE_DB_DIR].node = dirs[ACTIVE_DB_DIR].node
        /\ dirs'[ACTIVE_DB_DIR].items \subseteq dirs[ACTIVE_DB_DIR].items \cup dirs[TEMP_DB_DIR].items

C20_SwapState ==
    ((build.pc \in {"clearing", "moving"} \/ build.result = "swapped") /\ build.prior.exists) =>
        /\ dirs[ACTIVE_DB_DIR].exists
        /\ dirs[ACTIVE_DB_DIR].node = build.prior.node

C20_ActiveDirectoryKept == []C20_SwapState /\ [][C20_SwapStep]_vars

\* C20 witness: a swap over an active directory that held an index has returned;
\* the directory is the one that was there, with other entries
C20_Witness ==
    /\ build.pc = "idle" /\ build.result = "swapped"
    /\ build.prior.exists /\ build.prior.items # {}
    /\ dirs[ACTIVE_DB_DIR].node = build.prior.node
    /\ dirs[ACTIVE_DB_DIR].items # build.prior.items
    /\ dirs[ACTIVE_DB_DIR].items = build.promoted

(***************************************************************************)
(* Fetcher: retried runs, the two files together, the recorded date        *)
(***************************************************************************)
\* the last run completed, and the run before it was aborted by an HTTP error after
\* it had written records; the API's result list changed during neither
RetriedAfterAbort ==
    /\ Len(hist) = 2
    /\ hist[1].outcome = "error" /\ hist[1].new_count > 0 /\ ~hist[1].changed
    /\ Completed(Last) /\ ~Last.changed
    /\ Last.upstream = hist[1].upstream

\* C21: when a run is aborted by an HTTP error after it wrote records, the next run
\* writes none of those records again, and the record file ends with every speech
\* identifier on one line at most
C21_RetryWritesNoRecordAgain ==
    RetriedAfterAbort =>
       /\ \A k \in 1..Len(Last.wrote) :
             \A j \in 1..Len(Last.before.out.lines) :
                 Last.wrote[k].speechID # Last.before.out.lines[j].speechID
       /\ NoRepeat(SpeechIds(Last.after.out.lines))

\* the identifiers of the records of a record file, and those of an ID file
RecordIds(file) == {file.lines[k].speechID : k \in 1..Len(file.lines)}
ListedIds(file) == {file.lines[k] : k \in 1..Len(file.lines)}

\* C22: after a run that completes without error the record file and the
\* fetched-ID file hold the same identifiers, provided they did before the run; so
\* they do after every run of a sequence of completed runs that starts from no
\* files
C22_IdsFileMatchesRecordFile ==
    (hist # <<>> /\ Completed(Last)
        /\ RecordIds(Last.before.out) = ListedIds(Last.before.ids)) =>
       /\ RecordIds(Last.after.out) = ListedIds(Last.after.ids)
       /\ fetch.pc = "idle" => RecordIds(outFile) = ListedIds(idsFile)

\* C22 witness: two runs were made from no files and both completed, the second
\* one incremental with new records; the two files hold the same identifiers
C22_Witness ==
    /\ runs = 2 /\ Len(hist) = 2 /\ fetch.pc = "idle"
    /\ hist[1].outcome = "done" /\ hist[1].mode = "initial"
    /\ Last.outcome = "done" /\ Last.mode = "incremental"
    /\ Last.wrote # <<>>
    /\ Cardinality(RecordIds(outFile)) >= 2
    /\ RecordIds(outFile) = ListedIds(idsFile)

\* C23: the recorded last_fetched_date never decreases from one run to the next:
\* after a run it is greater than or equal to what it was before the run
C23_LastFetchedDateNeverDecreases ==
    (hist # <<>> /\ Last.before.state.exists) =>
       /\ Last.after.state.exists
       /\ Last.after.state.last_fetched_date >= Last.before.state.last_fetched_date

(***************************************************************************)
(* API server: requests handled by worker threads at the same time         *)
(***************************************************************************)
\* `ask` is a plain function: the server runs each request on a thread of its pool
Workers == {"w1", "w2"}

MaxRequests == 2     \* requests the server takes in

IdleWorker == [pc |-> "idle", session_id |-> "", question |-> 0, obj |-> 0,
               chat_history |-> <<>>]

WorkersIdle == workers = [th |-> [w \in Workers |-> IdleWorker], n |-> 0, answered |-> {}]

\* ask -> answer_question up to the call of the chain: the retrieval is done
ReqBegin(w) ==
    /\ engine.status = "up"
    /\ workers.th[w].pc = "idle"
    /\ workers.n < MaxRequests
    /\ \E session_id \in SessionIds :
         workers' = [workers EXCEPT !.n = @ + 1,
                        !.th[w] = [IdleWorker EXCEPT !.pc = "check", !.session_id = session_id,
                                                     !.question = workers.n + 1]]
    /\ UNCHANGED <<engine, store, heap, lastCall, api, ui>>
    /\ UNCHANGED <<fetchVars, buildVars, dagVars, docVars>>

\* get_session_history: if session_id not in store
ReqCheck(w) ==
    /\ workers.th[w].pc = "check"
    /\ workers' = [workers EXCEPT !.th[w].pc =
                      IF store[HistoryKey(workers.th[w].session_id)] = 0 THEN "create" ELSE "get"]
    /\ UNCHANGED <<engine, store, heap, lastCall, api, ui>>
    /\ UNCHANGED <<fetchVars, buildVars, dagVars, docVars>>

\* get_session_history: store[session_id] = ChatMessageHistory()
ReqCreate(w) ==
    /\ workers.th[w].pc = "create"
    /\ heap' = Append(heap, <<>>)
    /\ store' = [store EXCEPT ![HistoryKey(workers.th[w].session_id)] = Len(heap) + 1]
    /\ workers' = [workers EXCEPT !.th[w].pc = "get"]
    /\ UNCHANGED <<engine, lastCall, api, ui>>
    /\ UNCHANGED <<fetchVars, buildVars, dagVars, docVars>>

\* get_session_history: return store[session_id]
ReqGet(w) ==
    /\ workers.th[w].pc = "get"
    /\ workers' = [workers EXCEPT !.th[w].pc = "load",
                                  !.th[w].obj = store[HistoryKey(workers.th[w].session_id)]]
    /\ UNCHANGED <<engine, store, heap, lastCall, api, ui>>
    /\ UNCHANGED <<fetchVars, buildVars, dagVars, docVars>>

\* the chain reads the messages of the history object into the prompt
ReqLoad(w) ==
    /\ workers.th[w].pc = "load"
    /\ workers' = [workers EXCEPT !.th[w].pc = "llm",
                                  !.th[w].chat_history = heap[workers.th[w].obj]]
    /\ UNCHANGED <<engine, store, heap, lastCall, api, ui>>
    /\ UNCHANGED <<fetchVars, buildVars, dagVars, docVars>>

\* the model answers: the two turns are added to the history object the request
\* holds, the response is returned
ReqAnswer(w) ==
    /\ workers.th[w].pc = "llm"
    /\ LET r == workers.th[w]
       IN  /\ heap' = [heap EXCEPT ![r.obj] = @ \o <<HumanMessage(r.question), AIMessage(r.question)>>]
           /\ workers' = [workers EXCEPT !.th[w] = IdleWorker,
                             !.answered = @ \cup {[session_id |-> r.session_id,
                                                   question |-> r.question,
                                                   answer |-> r.question]}]
    /\ UNCHANGED <<engine, store, lastCall, api, ui>>
    /\ UNCHANGED <<fetchVars, buildVars, dagVars, docVars>>

\* the model call raises: the request fails, no turn is recorded
ReqFail(w) ==
    /\ workers.th[w].pc = "llm"
    /\ workers' = [workers EXCEPT !.th[w] = IdleWorker]
    /\ UNCHANGED <<engine, store, heap, lastCall, api, ui>>
    /\ UNCHANGED <<fetchVars, buildVars, dagVars, docVars>>

\* the start of the server process: the import of rag_engine
ServerStart ==
    /\ EngineInit
    /\ UNCHANGED workers

ServerNext ==
    \/ ServerStart
    \/ \E w \in Workers :
         \/ ReqBegin(w)
         \/ ReqCheck(w)
         \/ ReqCreate(w)
         \/ ReqGet(w)
         \/ ReqLoad(w)
         \/ ReqAnswer(w)
         \/ ReqFail(w)

\* whether a sequence of messages holds a message
Holds(messages, m) == \E k \in 1..Len(messages) : messages[k] = m

\* C24: when requests with the same session id, not seen before, are handled at
\* the same time, the session-history map keeps one history object for the session
\* and no turn is lost: once the requests have been answered, the session's
\* history holds the human and the assistant message of each of them
C24_NoTurnLost ==
    \A r \in workers.answered :
        /\ store[r.session_id] # 0
        /\ Holds(History(r.session_id), HumanMessage(r.question))
        /\ Holds(History(r.session_id), AIMessage(r.answer))

(***************************************************************************)
(* Specifications                                                          *)
(***************************************************************************)
\* the record file the builder can find
BuildInputs ==
    /\ upstream = <<>>
    /\ outFile \in {AbsentFile, [exists |-> TRUE, lines |-> <<>>],
                    [exists |-> TRUE, lines |-> <<Rec(1)>>],
                    [exists |-> TRUE, lines |-> <<Rec(1), Rec(2), Rec(3)>>]}
    /\ idsFile = AbsentFile
    /\ stateFile = AbsentState
    /\ fetch = IdleFetch
    /\ cur = NoObs
    /\ hist = <<>>
    /\ runs = 0
    /\ withdrawn = FALSE

FetchInit == FetchStart /\ BuildIdle /\ EngineIdle /\ DagIdle /\ DocsIdle /\ WorkersIdle
SpecFetch == FetchInit /\ [][FetchNext]_vars

BuildInit == BuildInputs /\ BuildStart /\ EngineIdle /\ DagIdle /\ DocsIdle /\ WorkersIdle
SpecBuild == BuildInit /\ [][BuildNext]_vars

\* the engine starts over an active directory that is there, or is not
EngineDirs ==
    /\ dirs \in {[p \in Paths |-> AbsentDir],
                 [p \in Paths |-> IF p = ACTIVE_DB_DIR
                                  THEN [NewDir(ACTIVE_DB_DIR, 0) EXCEPT !.items = IndexItems(0, 1)]
                                  ELSE AbsentDir]}
    /\ build = IdleBuild
    /\ promo = [good |-> dirs[ACTIVE_DB_DIR].items, torn |-> FALSE]
    /\ seen = NotSeen

EngineStart == FetchStart /\ EngineDirs /\ EngineIdle /\ DagIdle /\ DocsIdle /\ WorkersIdle
SpecEngine == EngineStart /\ [][EngineNext]_vars

DagInit == FetchStart /\ BuildIdle /\ EngineIdle /\ DagIdle /\ DocsIdle /\ WorkersIdle
SpecDag == DagInit /\ [][DagNext]_vars /\ DagFairness

DocsInit == FetchStart /\ BuildIdle /\ EngineIdle /\ DagIdle /\ DocsStart /\ WorkersIdle
SpecDocs == DocsInit /\ [][DocsNext]_vars

ServerInit == FetchStart /\ EngineDirs /\ EngineIdle /\ DagIdle /\ DocsIdle /\ WorkersIdle
SpecServer == ServerInit /\ [][ServerNext]_vars

====
